---- MODULE Spec2Model ----
(***************************************************************************)
(* Model of the secure gateway proxy of the analyzer service               *)
(* (analyzer_service/app/api/routers/gateway.py): the request handler      *)
(* `agent` and the stream relay `_stream_downstream_response`.             *)
(*                                                                         *)
(* One proxy request is followed from its arrival to its end.  The         *)
(* downstream service is the environment: it answers with a status and a   *)
(* body, delivers chunks, ends the body, or fails at transport level.      *)
(***************************************************************************)
EXTENDS Integers, Sequences, FiniteSets, TLC

(***************************************************************************)
(* Bounds and input alphabets                                              *)
(***************************************************************************)
\* longest chunk sequence a downstream stream delivers
MaxChunks == 3

\* agent names a caller may send (payload.agent is any string)
AgentNames == {"dormant", "compliance", "ia-chat", "sql-bot",
               "", "Dormant", "DORMANT", "admin"}

\* values of payload.params.get("streaming", False), named by their Python
\* literal; "absent" is a params dict without the key
StreamingParams == {"absent", "True", "False", "None", "0", "1", "''", "'false'"}

\* status codes a downstream response may carry
Statuses == {200, 201, 302, 399, 400, 404, 500}

\* response bodies of the downstream service, as text
Bodies == {"{\"a\": 1}", "{\"a\":1}", "[1, 2]", "null", "", "boom", "say \"hi\""}

\* raw byte chunks of a streamed downstream body
Chunks == {"a", "b", "data: x\n\n"}

(***************************************************************************)
(* Program constants                                                       *)
(***************************************************************************)
ALLOWED_AGENTS == {"dormant", "compliance", "ia-chat", "sql-bot"}

HTTP_400_BAD_REQUEST == 400
HTTP_503_SERVICE_UNAVAILABLE == 503
\* status of a response built from a returned value (route default)
HTTP_200_OK == 200
\* status the framework answers with when the handler raises something that
\* is not an HTTPException
HTTP_500_INTERNAL_SERVER_ERROR == 500

BufferedTimeout == 60
StreamTimeout == 120

\* settings.AGENT_AI_SERVICE_URL, an opaque configured base URL
AGENT_AI_SERVICE_URL == "http://agents"

\* exceptions httpx raises for a failed exchange; all are subclasses of
\* httpx.RequestError
ConnectFailures == {"ConnectError", "ConnectTimeout", "ReadTimeout"}
ReadFailures == {"ReadError", "ReadTimeout", "RemoteProtocolError"}
RequestErrors == ConnectFailures \cup ReadFailures

\* the coroutine methods httpx.Response offers for reading a body
ResponseAsyncMethods == {"aread", "aiter_bytes", "aiter_text", "aiter_lines",
                         "aiter_raw", "aclose"}

\* a registry that folds case before the membership test
isAllowed_IgnoreCase(name) == name \in ALLOWED_AGENTS \cup {"Dormant", "DORMANT"}

(***************************************************************************)
(* Pure helpers                                                            *)
(***************************************************************************)
\* payload.agent in ALLOWED_AGENTS: exact, case-sensitive set membership
isAllowed(name) == name \in ALLOWED_AGENTS

\* a mode test that compares with the boolean: params.get("streaming") is True
Truthy_OnlyTrue(v) == v = "True"

\* Python truth value of payload.params.get("streaming", False)
Truthy(v) == v \in {"True", "1", "'false'"}

\* f"{settings.AGENT_AI_SERVICE_URL}/{payload.agent}"
TargetUrl(name) == AGENT_AI_SERVICE_URL \o "/" \o name

\* ', '.join(ALLOWED_AGENTS) for one iteration order of the set
JoinAgents(order) ==
    order[1] \o ", " \o order[2] \o ", " \o order[3] \o ", " \o order[4]

\* the iteration orders of the set ALLOWED_AGENTS (hash order is not fixed)
AgentOrders ==
    {o \in [1..4 -> ALLOWED_AGENTS] : \A i, j \in 1..4 : i # j => o[i] # o[j]}

\* f"Invalid agent specified. Allowed agents are: {', '.join(ALLOWED_AGENTS)}"
InvalidAgentDetail(order) ==
    "Invalid agent specified. Allowed agents are: " \o JoinAgents(order)

\* JSON values, as a type and a canonical rendering
NoValue == [type |-> "none", repr |-> ""]

\* a decoder that hands an undecodable body back as a string
ResponseJson_Lenient(text) ==
    CASE text = "{\"a\": 1}" -> [ok |-> TRUE, value |-> [type |-> "object", repr |-> "a=1"]]
      [] text = "{\"a\":1}"  -> [ok |-> TRUE, value |-> [type |-> "object", repr |-> "a=1"]]
      [] text = "[1, 2]"     -> [ok |-> TRUE, value |-> [type |-> "array", repr |-> "1,2"]]
      [] text = "null"       -> [ok |-> TRUE, value |-> [type |-> "null", repr |-> "None"]]
      [] OTHER               -> [ok |-> TRUE, value |-> [type |-> "string", repr |-> text]]

\* response.json(): the decoded value of a body text, or a JSONDecodeError
ResponseJson(text) ==
    CASE text = "{\"a\": 1}" -> [ok |-> TRUE, value |-> [type |-> "object", repr |-> "a=1"]]
      [] text = "{\"a\":1}"  -> [ok |-> TRUE, value |-> [type |-> "object", repr |-> "a=1"]]
      [] text = "[1, 2]"     -> [ok |-> TRUE, value |-> [type |-> "array", repr |-> "1,2"]]
      [] text = "null"       -> [ok |-> TRUE, value |-> [type |-> "null", repr |-> "None"]]
      [] OTHER               -> [ok |-> FALSE, value |-> NoValue]

\* response.raise_for_status() raises HTTPStatusError unless the status is 2xx
RaisesForStatus(status) == ~(status >= 200 /\ status <= 299)

\* the streaming branch's own test: response.status_code >= 400
IsErrorStatus(status) == status >= 400

\* hasattr(response, "atext"): httpx.Response has no method atext
ResponseHasAtext == "atext" \in ResponseAsyncMethods

\* f"Downstream error: {error_text}"
DownstreamErrorMessage(text) == "Downstream error: " \o text

UnavailableMessage == "Downstream service is unavailable."

\* escaping json.dumps applies inside a JSON string: a double quote becomes \"
JsonEscape(s) ==
    CASE s = DownstreamErrorMessage("say \"hi\"") -> DownstreamErrorMessage("say \\\"hi\\\"")
      [] s = DownstreamErrorMessage("{\"a\": 1}") -> DownstreamErrorMessage("{\\\"a\\\": 1}")
      [] s = DownstreamErrorMessage("{\"a\":1}")  -> DownstreamErrorMessage("{\\\"a\\\":1}")
      [] OTHER -> s

\* json.dumps({"type": "error", "message": message})
JsonDumpsError(message) ==
    "{\"type\": \"error\", \"message\": \"" \o JsonEscape(message) \o "\"}"

\* f"data: {error_payload}\n\n".encode()
ErrorFrame(message) == "data: " \o JsonDumpsError(message) \o "\n\n"

\* an event the relay synthesizes: yield of an error frame
ErrorEvent(message) == [type |-> "error", payload |-> ErrorFrame(message)]

\* a relay that wraps every chunk in a frame of its own
DataEvent_Framed(chunk) == [type |-> "data", payload |-> "data: " \o chunk \o "\n\n"]

\* an event the relay passes through: yield chunk
DataEvent(chunk) == [type |-> "data", payload |-> chunk]

(***************************************************************************)
(* Outcomes of the handler                                                 *)
(***************************************************************************)
NoOutcome ==
    [kind |-> "none", status |-> 0, detail |-> "", body |-> NoValue, exc |-> "none"]

\* raise HTTPException(status_code=status, detail=detail)
HTTPException(status, detail) ==
    [kind |-> "http_exception", status |-> status, detail |-> detail,
     body |-> NoValue, exc |-> "HTTPException"]

\* a handler that wraps the decoded body in an envelope
Return_Enveloped(value) ==
    [kind |-> "return", status |-> HTTP_200_OK, detail |-> "",
     body |-> [type |-> "object", repr |-> "data=" \o value.repr], exc |-> "none"]

\* return value: the framework serializes it with the route's default status
Return(value) ==
    [kind |-> "return", status |-> HTTP_200_OK, detail |-> "", body |-> value,
     exc |-> "none"]

\* return StreamingResponse(..., media_type="text/event-stream")
StreamingResponse ==
    [kind |-> "stream", status |-> HTTP_200_OK, detail |-> "", body |-> NoValue,
     exc |-> "none"]

\* an exception no except clause of the handler catches
Uncaught(exc) ==
    [kind |-> "uncaught", status |-> 0, detail |-> "", body |-> NoValue, exc |-> exc]

\* status line of the response the caller receives for an outcome
CallerStatus(o) ==
    IF o.kind = "uncaught" THEN HTTP_500_INTERNAL_SERVER_ERROR ELSE o.status

\* text the caller receives with an error outcome
CallerDetail(o) ==
    IF o.kind = "uncaught" THEN "Internal Server Error" ELSE o.detail

\* a buffered branch without the except clause for httpx.RequestError
BufferedExcept_NoRequestError(exc, status, text) ==
    IF exc = "HTTPStatusError"
    THEN HTTPException(status, "Downstream service error: " \o text)
    ELSE Uncaught(exc)

\* the except clauses of the buffered branch, applied to exception exc raised
\* for a response with the given status and text
BufferedExcept(exc, status, text) ==
    IF exc \in RequestErrors
    THEN HTTPException(HTTP_503_SERVICE_UNAVAILABLE,
                       "The downstream AI agent service is currently unavailable.")
    ELSE IF exc = "HTTPStatusError"
    THEN HTTPException(status, "Downstream service error: " \o text)
    ELSE Uncaught(exc)

\* the body of the buffered try block once client.get has returned a response
BufferedTry(status, text) ==
    IF RaisesForStatus(status)
    THEN BufferedExcept("HTTPStatusError", status, text)
    ELSE IF ResponseJson(text).ok
    THEN Return(ResponseJson(text).value)
    ELSE BufferedExcept("JSONDecodeError", status, text)

\* a relay whose except clause names httpx.ConnectError and ConnectTimeout only
StreamExcept_ConnectOnly(exc, sofar) ==
    IF exc \in {"ConnectError", "ConnectTimeout"}
    THEN [emitted |-> Append(sofar, ErrorEvent(UnavailableMessage)), raised |-> "none"]
    ELSE [emitted |-> sofar, raised |-> exc]

\* the except clause of the relay, applied to exception exc raised after the
\* events in `sofar` were yielded: the events and what is raised to the consumer
StreamExcept(exc, sofar) ==
    IF exc \in RequestErrors
    THEN [emitted |-> Append(sofar, ErrorEvent(UnavailableMessage)), raised |-> "none"]
    ELSE [emitted |-> sofar, raised |-> exc]

\* the branch of the relay for an error status with body text
StreamErrorStatus(text, sofar) ==
    IF ResponseHasAtext
    THEN [emitted |-> Append(sofar, ErrorEvent(DownstreamErrorMessage(text))),
          raised |-> "none"]
    ELSE StreamExcept("AttributeError", sofar)

\* a relay whose except clause sits inside the loop: after the error frame the
\* loop goes on
RelayStateAfterExcept_Resume(result) ==
    IF result.raised = "none" THEN "Relaying" ELSE "Closed"

\* state of the relay once an exception has left its try block.  An exception
\* the except clause catches leaves the generator suspended at the yield of the
\* unavailability frame, the last statement of the function; any other
\* exception leaves the generator, which is finished
RelayStateAfterExcept(result) ==
    IF result.raised = "none" THEN "ErroringOnce" ELSE "Closed"

\* a relay that opens its client and response without context managers
ReleaseOnExit_Leak(c) == c

\* leaving the two `async with` blocks, by whatever way: an open client and
\* response are released
ReleaseOnExit(c) == IF c = "open" THEN "released" ELSE c

\* the events of a relay ended at its suspension point by the consumer, with
\* CancelledError at an await or GeneratorExit at the yield: either passes the
\* except clause like any exception that is not a RequestError
CancelEmitted(sofar) == StreamExcept("CancelledError", sofar).emitted

\* where the generator in the given state can be when the caller leaves: not
\* started yet (the consumer is still sending the response head), suspended in
\* an await of its own (the request, the next chunk), or at a yield while the
\* consumer sends what was yielded: `yield chunk` once a chunk was yielded, the
\* yield of the error frame in ErroringOnce
SuspensionPoints(state, sofar) ==
    CASE state = "NotStarted" -> {"unstarted"}
      [] state = "Relaying" /\ sofar # <<>> -> {"await", "yield"}
      [] state = "ErroringOnce" -> {"yield"}
      [] OTHER -> {"await"}

(***************************************************************************)
(* State                                                                   *)
(***************************************************************************)
VARIABLES
    pc,          \* position of the request: "idle", "buffered", "streaming", "done"
    req,         \* the request body: agent name and the streaming parameter
    calls,       \* downstream HTTP calls issued for the request, in order
    dsStatus,    \* status of the downstream response, 0 while there is none
    dsBody,      \* body text of the downstream response, once it is known
    received,    \* chunks the relay has pulled from the downstream body
    dsFailure,   \* transport failure of the downstream exchange, or "none"
    relayState,  \* "NotStarted", "AwaitingStatus", "Relaying", "ErroringOnce"
                 \* (suspended at the yield of an error frame), "Closed"
    emitted,     \* events the relay has yielded to its consumer
    raised,      \* exception the relay raised to its consumer, or "none"
    closeReason, \* what ended the stream: "eof", "status", "transport", "cancelled"
    conn,        \* the relay's client and response: "none", "open", "released"
    outcome,     \* what the handler returned or raised
    cs,          \* the proxy calls in flight together, one record per call
    clients,     \* the clients made by those calls: "none", "open", "released"
    agentOrder,  \* iteration order of the set ALLOWED_AGENTS in this process
    updir,       \* names of the files in settings.UPLOAD_DIR
    rows,        \* rows of the File metadata table
    lastUpload,  \* the upload that ended last: its input and what the caller got
    closing,     \* the uploads suspended at `await file.close()`
    nUploads,    \* uploads handled so far
    users,       \* rows of the users table
    logins       \* the get_current_user calls, one record per call

gatewayVars == <<pc, req, calls, dsStatus, dsBody, received, dsFailure, relayState,
                 emitted, raised, closeReason, conn, outcome>>
concurrentVars == <<cs, clients, agentOrder>>
uploadVars == <<updir, rows, lastUpload, closing, nUploads>>
userVars == <<users, logins>>

vars == <<gatewayVars, concurrentVars, uploadVars, userVars>>

\* the parts of the state a single proxy request does not touch
NoConcurrentCalls == cs = <<>> /\ clients = <<>> /\ agentOrder = <<>>
NoUploads ==
    updir = {} /\ rows = {} /\ lastUpload = <<>> /\ closing = {} /\ nUploads = 0
NoLogins == users = {} /\ logins = <<>>

NoRequest == [agent |-> "", streaming |-> "absent"]

\* a proxy request that has not arrived yet
GatewayInit ==
    /\ pc = "idle"
    /\ req = NoRequest
    /\ calls = <<>>
    /\ dsStatus = 0
    /\ dsBody = ""
    /\ received = <<>>
    /\ dsFailure = "none"
    /\ relayState = "NotStarted"
    /\ emitted = <<>>
    /\ raised = "none"
    /\ closeReason = "none"
    /\ conn = "none"
    /\ outcome = NoOutcome

Init == GatewayInit /\ NoConcurrentCalls /\ NoUploads /\ NoLogins

\* one downstream HTTP call
Call(mode, url, timeout) == [mode |-> mode, url |-> url, timeout |-> timeout]

(***************************************************************************)
(* The handler `agent`                                                     *)
(***************************************************************************)
\* the handler up to its first suspension: validation, mode selection, and
\* for a buffered request the issue of client.get
agent(name, streaming, order) ==
    /\ pc = "idle"
    /\ req' = [agent |-> name, streaming |-> streaming]
    /\ IF ~isAllowed(name)
       THEN /\ outcome' = HTTPException(HTTP_400_BAD_REQUEST, InvalidAgentDetail(order))
            /\ pc' = "done"
            /\ calls' = calls
       ELSE IF Truthy(streaming)
       THEN /\ outcome' = StreamingResponse
            /\ pc' = "streaming"
            /\ calls' = calls
       ELSE /\ outcome' = outcome
            /\ pc' = "buffered"
            /\ calls' = Append(calls, Call("get", TargetUrl(name), BufferedTimeout))
    /\ UNCHANGED <<dsStatus, dsBody, received, dsFailure, relayState, emitted,
                   raised, closeReason, conn>>
    /\ UNCHANGED <<concurrentVars, uploadVars, userVars>>

\* client.get raises a RequestError: the handler resumes in its except clause
BufferedTransportFailure(exc) ==
    /\ pc = "buffered"
    /\ dsFailure' = exc
    /\ outcome' = BufferedExcept(exc, 0, "")
    /\ pc' = "done"
    /\ UNCHANGED <<req, calls, dsStatus, dsBody, received, relayState, emitted,
                   raised, closeReason, conn>>
    /\ UNCHANGED <<concurrentVars, uploadVars, userVars>>

\* client.get returns a response: the handler resumes and runs to its end
BufferedResponse(status, text) ==
    /\ pc = "buffered"
    /\ dsStatus' = status
    /\ dsBody' = text
    /\ outcome' = BufferedTry(status, text)
    /\ pc' = "done"
    /\ UNCHANGED <<req, calls, received, dsFailure, relayState, emitted,
                   raised, closeReason, conn>>
    /\ UNCHANGED <<concurrentVars, uploadVars, userVars>>

(***************************************************************************)
(* The relay `_stream_downstream_response`                                 *)
(***************************************************************************)
\* the consumer starts the generator: the client is opened and the streaming
\* request is sent
StreamStart ==
    /\ pc = "streaming"
    /\ relayState = "NotStarted"
    /\ relayState' = "AwaitingStatus"
    /\ conn' = "open"
    /\ calls' = Append(calls, Call("stream", TargetUrl(req.agent), StreamTimeout))
    /\ UNCHANGED <<pc, req, dsStatus, dsBody, received, dsFailure, emitted,
                   raised, closeReason, outcome>>
    /\ UNCHANGED <<concurrentVars, uploadVars, userVars>>

\* the request fails before any response arrives: the exception leaves both
\* `async with` blocks and the except clause yields the unavailability frame,
\* where the generator stays suspended while the consumer sends the frame
StreamConnectFailure(exc) ==
    /\ pc = "streaming"
    /\ relayState = "AwaitingStatus"
    /\ dsFailure' = exc
    /\ emitted' = StreamExcept(exc, emitted).emitted
    /\ raised' = StreamExcept(exc, emitted).raised
    /\ relayState' = RelayStateAfterExcept(StreamExcept(exc, emitted))
    /\ closeReason' = "transport"
    /\ conn' = ReleaseOnExit(conn)
    /\ pc' = IF StreamExcept(exc, emitted).raised = "none" THEN "streaming" ELSE "done"
    /\ UNCHANGED <<req, calls, dsStatus, dsBody, received, outcome>>
    /\ UNCHANGED <<concurrentVars, uploadVars, userVars>>

\* the response head arrives: the status is inspected.  On an error status the
\* body is read: the read raises and the exception leaves the generator (a
\* read that returned would leave it suspended at the yield of the error
\* frame, inside both `async with` blocks)
StreamStatus(status, text) ==
    /\ pc = "streaming"
    /\ relayState = "AwaitingStatus"
    /\ dsStatus' = status
    /\ IF IsErrorStatus(status)
       THEN /\ dsBody' = text
            /\ emitted' = StreamErrorStatus(text, emitted).emitted
            /\ raised' = StreamErrorStatus(text, emitted).raised
            /\ closeReason' = "status"
            /\ IF StreamErrorStatus(text, emitted).raised = "none"
               THEN /\ relayState' = "ErroringOnce"
                    /\ UNCHANGED <<conn, pc>>
               ELSE /\ relayState' = "Closed"
                    /\ conn' = ReleaseOnExit(conn)
                    /\ pc' = "done"
       ELSE /\ relayState' = "Relaying"
            /\ UNCHANGED <<dsBody, emitted, raised, closeReason, conn, pc>>
    /\ UNCHANGED <<req, calls, received, dsFailure, outcome>>
    /\ UNCHANGED <<concurrentVars, uploadVars, userVars>>

\* the next chunk of the body arrives and is yielded
StreamChunk(chunk) ==
    /\ pc = "streaming"
    /\ relayState = "Relaying"
    /\ Len(received) < MaxChunks
    /\ received' = Append(received, chunk)
    /\ emitted' = Append(emitted, DataEvent(chunk))
    /\ UNCHANGED <<pc, req, calls, dsStatus, dsBody, dsFailure, relayState,
                   raised, closeReason, conn, outcome>>
    /\ UNCHANGED <<concurrentVars, uploadVars, userVars>>

\* the body ends: the loop and both context managers exit
StreamEnd ==
    /\ pc = "streaming"
    /\ relayState = "Relaying"
    /\ relayState' = "Closed"
    /\ closeReason' = "eof"
    /\ conn' = ReleaseOnExit(conn)
    /\ pc' = "done"
    /\ UNCHANGED <<req, calls, dsStatus, dsBody, received, dsFailure, emitted,
                   raised, outcome>>
    /\ UNCHANGED <<concurrentVars, uploadVars, userVars>>

\* reading the body fails at transport level: as for a failed request, the
\* generator is left suspended at the yield of the unavailability frame, its
\* client and response released
StreamReadFailure(exc) ==
    /\ pc = "streaming"
    /\ relayState = "Relaying"
    /\ dsFailure' = exc
    /\ emitted' = StreamExcept(exc, emitted).emitted
    /\ raised' = StreamExcept(exc, emitted).raised
    /\ relayState' = RelayStateAfterExcept(StreamExcept(exc, emitted))
    /\ closeReason' = "transport"
    /\ conn' = ReleaseOnExit(conn)
    /\ pc' = IF StreamExcept(exc, emitted).raised = "none" THEN "streaming" ELSE "done"
    /\ UNCHANGED <<req, calls, dsStatus, dsBody, received, outcome>>
    /\ UNCHANGED <<concurrentVars, uploadVars, userVars>>

\* the consumer has sent the error frame and resumes the generator, which runs
\* off its end: the stream and the caller's response are complete
StreamAfterError ==
    /\ pc = "streaming"
    /\ relayState = "ErroringOnce"
    /\ relayState' = "Closed"
    /\ conn' = ReleaseOnExit(conn)
    /\ pc' = "done"
    /\ UNCHANGED <<req, calls, dsStatus, dsBody, received, dsFailure, emitted,
                   raised, closeReason, outcome>>
    /\ UNCHANGED <<concurrentVars, uploadVars, userVars>>

\* the caller disconnects and the consumer of the generator is cancelled; the
\* caller's response ends.  A generator suspended in an await of its own gets
\* the cancellation: the context managers exit and nothing more is yielded.  A
\* generator suspended at a yield is not resumed: it stays as it is, at
\* `yield chunk` with its client and response open, until it is finalized.  A
\* generator that was not started yet never runs: no downstream call is made.
ClientDisconnect(at) ==
    /\ pc = "streaming"
    /\ relayState \in {"NotStarted", "AwaitingStatus", "Relaying", "ErroringOnce"}
    /\ at \in SuspensionPoints(relayState, emitted)
    /\ closeReason' = "cancelled"
    /\ pc' = "done"
    /\ IF at = "await"
       THEN /\ relayState' = "Closed"
            /\ emitted' = CancelEmitted(emitted)
            /\ conn' = ReleaseOnExit(conn)
       ELSE UNCHANGED <<relayState, emitted, conn>>
    /\ UNCHANGED <<req, calls, dsStatus, dsBody, received, dsFailure,
                   raised, outcome>>
    /\ UNCHANGED <<concurrentVars, uploadVars, userVars>>

\* the generator its consumer abandoned at a yield is finalized, when the
\* interpreter finds it unreachable: aclose() raises GeneratorExit at the
\* yield, the context managers exit and the generator ends.  Nothing in the
\* program schedules this step
RelayFinalize ==
    /\ pc = "done"
    /\ relayState \in {"Relaying", "ErroringOnce"}
    /\ closeReason = "cancelled"
    /\ relayState' = "Closed"
    /\ emitted' = CancelEmitted(emitted)
    /\ conn' = ReleaseOnExit(conn)
    /\ UNCHANGED <<pc, req, calls, dsStatus, dsBody, received, dsFailure,
                   raised, closeReason, outcome>>
    /\ UNCHANGED <<concurrentVars, uploadVars, userVars>>

Next ==
    \/ \E name \in AgentNames, streaming \in StreamingParams, order \in AgentOrders :
          agent(name, streaming, order)
    \/ \E exc \in RequestErrors : BufferedTransportFailure(exc)
    \/ \E status \in Statuses, text \in Bodies : BufferedResponse(status, text)
    \/ StreamStart
    \/ \E exc \in ConnectFailures : StreamConnectFailure(exc)
    \/ \E status \in Statuses, text \in Bodies : StreamStatus(status, text)
    \/ \E chunk \in Chunks : StreamChunk(chunk)
    \/ StreamEnd
    \/ \E exc \in ReadFailures : StreamReadFailure(exc)
    \/ StreamAfterError
    \/ \E at \in {"unstarted", "await", "yield"} : ClientDisconnect(at)
    \/ RelayFinalize

Spec == Init /\ [][Next]_vars

(***************************************************************************)
(* Several proxy calls in flight together                                  *)
(*                                                                         *)
(* The process holds one record per call, with the fields of the single    *)
(* request above: the arguments and locals of its handler and generator.   *)
(* What httpx.AsyncClient() makes is an object of the process; a call      *)
(* keeps a reference to the client it made.  A step of the system is a     *)
(* step of one call, which rewrites its own record and the client its      *)
(* record refers to.                                                       *)
(***************************************************************************)
\* number of calls in flight together
NumCalls == 2
\* longest chunk sequence of one of the concurrent streams
MaxChunksConc == 2

Calls == 1..NumCalls

\* the agent names call i may send.  The first two calls go to different
\* allowed agents; the first may also send a case variant of its agent, which is
\* rejected; any further call sends a name that is not allowed
ConcAgents(i) ==
    CASE i = 1 -> {"dormant", "Dormant"}
      [] i = 2 -> {"compliance"}
      [] OTHER -> {"admin"}

\* inputs of the concurrent calls
ConcStreaming == {"True", "False"}
ConcStatuses == {200, 500}
ConcBodies == {"null", "boom"}
ConcConnectFailures == {"ConnectError"}
ConcReadFailures == {"ReadTimeout"}

\* the chunks the downstream service of call i delivers: each agent streams
\* chunks of its own, so that a chunk relayed by another call would show
ConcChunks(i) == IF i = 1 THEN {"a"} ELSE {"b"}

\* the reference of a call that has made no client
NoClient == 0

\* a relay that uses one client of the module, made at import, for every call
NewClient_Shared(i) == 1

\* httpx.AsyncClient(): every call of the constructor makes a new object; the
\* one call i makes is named i
NewClient(i) == i

\* a call that has not arrived yet
CallInit ==
    [pc |-> "idle", req |-> NoRequest, calls |-> <<>>, dsStatus |-> 0, dsBody |-> "",
     received |-> <<>>, dsFailure |-> "none", relayState |-> "NotStarted",
     emitted |-> <<>>, raised |-> "none", closeReason |-> "none",
     client |-> NoClient, outcome |-> NoOutcome]

\* the result of a step of one call: its record and the state of its client
Step(c, k) == [call |-> c, conn |-> k]

\* the handler of call i up to its first suspension, on the record c of the
\* call, in a process that iterates ALLOWED_AGENTS in the given order
AgentStepsIn(c, k, i, order) ==
    IF c.pc # "idle" THEN {}
    ELSE {Step(IF ~isAllowed(name)
               THEN [c EXCEPT !.req = [agent |-> name, streaming |-> streaming],
                              !.outcome = HTTPException(HTTP_400_BAD_REQUEST,
                                                        InvalidAgentDetail(order)),
                              !.pc = "done"]
               ELSE IF Truthy(streaming)
               THEN [c EXCEPT !.req = [agent |-> name, streaming |-> streaming],
                              !.outcome = StreamingResponse,
                              !.pc = "streaming"]
               ELSE [c EXCEPT !.req = [agent |-> name, streaming |-> streaming],
                              !.pc = "buffered",
                              !.calls = Append(c.calls,
                                  Call("get", TargetUrl(name), BufferedTimeout))],
               k)
          : name \in ConcAgents(i), streaming \in ConcStreaming}

\* the handler up to its first suspension, in whatever process
AgentSteps(c, k, i) == UNION {AgentStepsIn(c, k, i, order) : order \in AgentOrders}

\* the end of a buffered call: client.get fails or returns a response
BufferedSteps(c, k) ==
    IF c.pc # "buffered" THEN {}
    ELSE {Step([c EXCEPT !.dsFailure = exc, !.outcome = BufferedExcept(exc, 0, ""),
                         !.pc = "done"], k) : exc \in ConcConnectFailures}
         \cup
         {Step([c EXCEPT !.dsStatus = st[1], !.dsBody = st[2],
                         !.outcome = BufferedTry(st[1], st[2]), !.pc = "done"], k)
          : st \in ConcStatuses \X ConcBodies}

\* the record of a relay whose try block was left by exception exc
AfterExcept(c, exc) ==
    [c EXCEPT !.dsFailure = exc,
              !.emitted = StreamExcept(exc, c.emitted).emitted,
              !.raised = StreamExcept(exc, c.emitted).raised,
              !.relayState = RelayStateAfterExcept(StreamExcept(exc, c.emitted)),
              !.closeReason = "transport",
              !.pc = IF StreamExcept(exc, c.emitted).raised = "none"
                     THEN "streaming" ELSE "done"]

\* a step of the relay of call i, whose client is in state k
RelaySteps(c, k, i) ==
    IF c.pc # "streaming" THEN {}
    ELSE CASE c.relayState = "NotStarted" ->
                {Step([c EXCEPT !.relayState = "AwaitingStatus",
                                !.client = NewClient(i),
                                !.calls = Append(c.calls,
                                    Call("stream", TargetUrl(c.req.agent), StreamTimeout))],
                      "open")}
           [] c.relayState = "AwaitingStatus" ->
                {Step(AfterExcept(c, exc), ReleaseOnExit(k)) : exc \in ConcConnectFailures}
                \cup
                {IF ~IsErrorStatus(st[1])
                 THEN Step([c EXCEPT !.dsStatus = st[1], !.relayState = "Relaying"], k)
                 ELSE IF StreamErrorStatus(st[2], c.emitted).raised = "none"
                 THEN Step([c EXCEPT !.dsStatus = st[1], !.dsBody = st[2],
                                     !.emitted = StreamErrorStatus(st[2], c.emitted).emitted,
                                     !.relayState = "ErroringOnce",
                                     !.closeReason = "status"], k)
                 ELSE Step([c EXCEPT !.dsStatus = st[1], !.dsBody = st[2],
                                     !.emitted = StreamErrorStatus(st[2], c.emitted).emitted,
                                     !.raised = StreamErrorStatus(st[2], c.emitted).raised,
                                     !.relayState = "Closed",
                                     !.closeReason = "status",
                                     !.pc = "done"], ReleaseOnExit(k))
                 : st \in ConcStatuses \X ConcBodies}
           [] c.relayState = "Relaying" ->
                {Step([c EXCEPT !.received = Append(c.received, chunk),
                                !.emitted = Append(c.emitted, DataEvent(chunk))], k)
                 : chunk \in {x \in ConcChunks(i) : Len(c.received) < MaxChunksConc}}
                \cup
                {Step([c EXCEPT !.relayState = "Closed", !.closeReason = "eof",
                                !.pc = "done"], ReleaseOnExit(k))}
                \cup
                {Step(AfterExcept(c, exc), ReleaseOnExit(k)) : exc \in ConcReadFailures}
           [] c.relayState = "ErroringOnce" ->
                {Step([c EXCEPT !.relayState = "Closed", !.pc = "done"],
                      ReleaseOnExit(k))}
           [] OTHER -> {}

\* the caller of one call disconnects: the relay ends at once when it is
\* suspended in an await of its own, stays suspended when it is suspended at a
\* yield, and never runs when it was not started
DisconnectSteps(c, k) ==
    IF c.pc = "streaming"
           /\ c.relayState \in {"NotStarted", "AwaitingStatus", "Relaying", "ErroringOnce"}
    THEN {IF at = "await"
          THEN Step([c EXCEPT !.relayState = "Closed", !.closeReason = "cancelled",
                              !.emitted = CancelEmitted(c.emitted), !.pc = "done"],
                    ReleaseOnExit(k))
          ELSE Step([c EXCEPT !.closeReason = "cancelled", !.pc = "done"], k)
          : at \in SuspensionPoints(c.relayState, c.emitted)}
    ELSE {}

\* the abandoned generator of one call is finalized
FinalizeSteps(c, k) ==
    IF c.pc = "done" /\ c.relayState \in {"Relaying", "ErroringOnce"}
           /\ c.closeReason = "cancelled"
    THEN {Step([c EXCEPT !.relayState = "Closed",
                         !.emitted = CancelEmitted(c.emitted)], ReleaseOnExit(k))}
    ELSE {}

\* every step call i can take from record c with its client in state k
CallSteps(c, k, i) ==
    AgentSteps(c, k, i) \cup BufferedSteps(c, k) \cup RelaySteps(c, k, i)
        \cup DisconnectSteps(c, k) \cup FinalizeSteps(c, k)

\* the state of the client a record refers to, among the clients of the process
ConnOf(c, heap) == IF c.client = NoClient THEN "none" ELSE heap[c.client]

\* the effect of a step of call i on the process: the record of the call is
\* replaced, and the client it refers to takes its new state
Commit(i, t) ==
    /\ cs' = [cs EXCEPT ![i] = t.call]
    /\ clients' = IF t.call.client = NoClient THEN clients
                  ELSE [clients EXCEPT ![t.call.client] = t.conn]

ConcurrentInit ==
    /\ GatewayInit
    /\ cs = [i \in Calls |-> CallInit]
    /\ clients = [i \in Calls |-> "none"]
    /\ agentOrder \in AgentOrders
    /\ NoUploads
    /\ NoLogins

\* call i arrives and runs to its first suspension
ConcurrentAgent(i) ==
    /\ \E t \in AgentStepsIn(cs[i], ConnOf(cs[i], clients), i, agentOrder) : Commit(i, t)
    /\ UNCHANGED <<agentOrder, gatewayVars, uploadVars, userVars>>

\* the buffered call i resumes and ends
ConcurrentBuffered(i) ==
    /\ \E t \in BufferedSteps(cs[i], ConnOf(cs[i], clients)) : Commit(i, t)
    /\ UNCHANGED <<agentOrder, gatewayVars, uploadVars, userVars>>

\* the relay of call i takes a step
ConcurrentRelay(i) ==
    /\ \E t \in RelaySteps(cs[i], ConnOf(cs[i], clients), i) : Commit(i, t)
    /\ UNCHANGED <<agentOrder, gatewayVars, uploadVars, userVars>>

\* the caller of call i disconnects
ConcurrentDisconnect(i) ==
    /\ \E t \in DisconnectSteps(cs[i], ConnOf(cs[i], clients)) : Commit(i, t)
    /\ UNCHANGED <<agentOrder, gatewayVars, uploadVars, userVars>>

\* the abandoned generator of call i is finalized
ConcurrentFinalize(i) ==
    /\ \E t \in FinalizeSteps(cs[i], ConnOf(cs[i], clients)) : Commit(i, t)
    /\ UNCHANGED <<agentOrder, gatewayVars, uploadVars, userVars>>

ConcurrentNext ==
    \/ \E i \in Calls : ConcurrentAgent(i)
    \/ \E i \in Calls : ConcurrentBuffered(i)
    \/ \E i \in Calls : ConcurrentRelay(i)
    \/ \E i \in Calls : ConcurrentDisconnect(i)
    \/ \E i \in Calls : ConcurrentFinalize(i)

ConcurrentSpec == ConcurrentInit /\ [][ConcurrentNext]_vars

(***************************************************************************)
(* The handler `upload_file` (analyzer_service/app/api/routers/upload.py)  *)
(*                                                                         *)
(* The handler has one suspension point, `await file.close()` in its       *)
(* finally clause.  An upload held in memory is closed without a return to *)
(* the event loop and is one step; an upload rolled to disk is closed in a *)
(* worker thread, and other uploads run, or the task is cancelled, before  *)
(* the handler resumes.  The environment chooses the file name, what       *)
(* pandas makes of the content, and where the file system or the database  *)
(* fails.                                                                  *)
(***************************************************************************)
\* uploads handled in one run
MaxUploads == 2

HTTP_201_CREATED == 201
HTTP_422_UNPROCESSABLE_ENTITY == 422

\* file names a caller may send (file.filename or "")
Filenames == {"data.csv", "DATA.CSV", "book.xlsx", "old.xls", "notes.txt", "",
              ".csv", "archive.csv.gz"}

\* what pd.read_excel does with the content: it returns a frame or raises
ReadExcelOutcomes == {"ok", "ValueError", "ParserError", "BadZipFile"}

\* where the environment fails: nowhere, while the upload is copied to the
\* temporary file, while the CSV is registered (rename or to_csv), at db.commit
Faults == {"none", "copy", "register", "db"}

\* where the upload's SpooledTemporaryFile is held: UploadFile.close() awaits
\* a worker thread only for a file rolled to disk
Spooled == {"memory", "disk"}

\* exception classes derived from Exception; HTTPException is one of them
ExceptionSubclasses == {"HTTPException", "OSError", "ValueError", "ParserError",
                        "BadZipFile", "SQLAlchemyError", "KeyError"}

\* levels of the logging module
LOG_INFO == 20
LOG_WARNING == 30
LOG_ERROR == 40
LOG_CRITICAL == 50

\* level of logging.getLogger(__name__): no level is set on it or on a parent,
\* so it has the level of the root logger, WARNING
EffectiveLevel == LOG_WARNING

\* attributes of a logging.LogRecord; a key of `extra` must not name one
LogRecordAttributes ==
    {"name", "msg", "args", "levelname", "levelno", "pathname", "filename",
     "module", "exc_info", "exc_text", "stack_info", "lineno", "funcName",
     "created", "msecs", "relativeCreated", "thread", "threadName", "processName",
     "process", "message", "asctime"}

\* logger.<level>(msg, extra={...}) raises KeyError: the call is enabled for the
\* level and a key of extra would overwrite an attribute of the record
LogRaises(level, extraKeys) ==
    level >= EffectiveLevel /\ extraKeys \cap LogRecordAttributes # {}

\* raise HTTPException(...) after the logger call that precedes it
LogThenRaise(level, extraKeys, exception) ==
    IF LogRaises(level, extraKeys) THEN Uncaught("KeyError") ELSE exception

\* filename.lower()
Lower(filename) == IF filename = "DATA.CSV" THEN "data.csv" ELSE filename

\* any(filename_lower.endswith(ext) for ext in [".csv", ".xls", ".xlsx"])
HasSupportedExtension(lower) == lower \in {"data.csv", "book.xlsx", "old.xls", ".csv"}

\* Path(filename_lower).suffix; a name that is only ".csv" has no suffix
Suffix(lower) ==
    CASE lower = "data.csv"       -> ".csv"
      [] lower = "book.xlsx"      -> ".xlsx"
      [] lower = "old.xls"        -> ".xls"
      [] lower = "notes.txt"      -> ".txt"
      [] lower = "archive.csv.gz" -> ".gz"
      [] OTHER                    -> ""

\* settings.UPLOAD_DIR / f"tmp_{uuid.uuid4().hex}{ext}", for the n-th uuid
TmpName(n, ext) == [prefix |-> "tmp_", id |-> n, ext |-> ext]

\* UPLOAD_DIR / f"{file_id}.csv"
PersistedName(fileId) == [prefix |-> "", id |-> fileId, ext |-> ".csv"]

\* a finally clause that leaves the temporary file behind
Unlink_Noop(dir, name) == dir

\* tmp_path.unlink(missing_ok=True)
Unlink(dir, name) == dir \ {name}

\* csv_path.rename(output_path)
Rename(dir, from, to) == (dir \ {from}) \cup {to}

\* the File row of upload fileId
FileRow(fileId, filename) ==
    [id |-> fileId, filename |-> filename, content_type |-> "text/csv",
     path |-> PersistedName(fileId)]

\* state of a handler on its way: the directory, the table, and what is being
\* raised or returned
Flow(dir, rws, result) == [dir |-> dir, rows |-> rws, result |-> result]

\* the return value, sent with the route's status 201
Created(fileId) ==
    [kind |-> "return", status |-> HTTP_201_CREATED, detail |-> "",
     body |-> NoValue, exc |-> "none"]

\* step 2 of the try block: the upload is copied to the temporary file
CopyStep(dir, tmp, fault) ==
    IF LogRaises(LOG_INFO, {"user", "original_filename", "temp_path"})
    THEN Flow(dir, {}, Uncaught("KeyError"))
    ELSE IF fault = "copy"
    THEN Flow(dir \cup {tmp}, {}, Uncaught("OSError"))
    ELSE Flow(dir \cup {tmp}, {}, NoOutcome)

\* the inner try of step 3: register_csv_from_disk for a .csv suffix, otherwise
\* pd.read_excel and register_dataframe
RegisterTry(dir, tmp, ext, fileId, excel, fault) ==
    IF ext = ".csv"
    THEN IF fault = "register"
         THEN Flow(dir, {}, Uncaught("OSError"))
         ELSE Flow(Rename(dir, tmp, PersistedName(fileId)), {}, NoOutcome)
    ELSE IF excel # "ok"
         THEN Flow(dir, {}, Uncaught(excel))
         ELSE IF fault = "register"
         THEN Flow(dir, {}, Uncaught("OSError"))
         ELSE Flow(dir \cup {PersistedName(fileId)}, {}, NoOutcome)

\* except (pd.errors.ParserError, ValueError): logger.error, then
\* raise HTTPException(422)
RegisterExcept(result, ext) ==
    IF result.exc \in {"ParserError", "ValueError"}
    THEN LogThenRaise(LOG_ERROR, {"user", "filename", "error_details"},
             HTTPException(HTTP_422_UNPROCESSABLE_ENTITY,
                 "Could not parse the file. Please ensure it is a valid "
                     \o ext \o " file."))
    ELSE result

\* step 4: the File row is added and committed; a SQLAlchemyError is logged
\* and becomes HTTPException(500), and the row is not stored; step 5 logs the
\* success and returns
MetadataStep(dir, rws, fileId, filename, fault) ==
    IF fault = "db"
    THEN Flow(dir, rws,
              LogThenRaise(LOG_ERROR, {"user", "file_id", "error_details"},
                  HTTPException(HTTP_500_INTERNAL_SERVER_ERROR,
                      "A database error occurred while saving file information.")))
    ELSE Flow(dir, rws \cup {FileRow(fileId, filename)},
              LogThenRaise(LOG_INFO, {"user", "file_id", "original_filename"},
                  Created(fileId)))

\* the outer `except Exception`: whatever the try block raised, an
\* HTTPException included, is logged with logger.critical and becomes
\* HTTPException(500); an exception the handler itself raises leaves the call
OuterExcept(result) ==
    IF result.kind \in {"uncaught", "http_exception"} /\ result.exc \in ExceptionSubclasses
    THEN LogThenRaise(LOG_CRITICAL, {"user", "filename"},
             HTTPException(HTTP_500_INTERNAL_SERVER_ERROR,
                 "An unexpected server error occurred during file upload."))
    ELSE result

\* the try block of the handler, from the copy to the return
TryBlock(dir, rws, tmp, ext, fileId, filename, excel, fault) ==
    LET copied == CopyStep(dir, tmp, fault)
        registered == RegisterTry(copied.dir, tmp, ext, fileId, excel, fault)
        parsed == RegisterExcept(registered.result, ext)
    IN  IF copied.result.kind # "none"
        THEN Flow(copied.dir, rws, copied.result)
        ELSE IF parsed.kind # "none"
        THEN Flow(registered.dir, rws, parsed)
        ELSE MetadataStep(registered.dir, rws, fileId, filename, fault)

\* the whole handler for the n-th upload: validation, try, except, finally
UploadFile(dir, rws, n, filename, excel, fault) ==
    LET lower == Lower(filename)
        ext == Suffix(lower)
        tmp == TmpName(n, ext)
        tried == TryBlock(dir, rws, tmp, ext, n, filename, excel, fault)
    IN  IF ~HasSupportedExtension(lower)
        THEN [dir |-> dir, rows |-> rws, closed |-> FALSE,
              result |-> LogThenRaise(LOG_WARNING, {"user", "filename"},
                  HTTPException(HTTP_400_BAD_REQUEST,
                      "Only CSV and Excel (.xls, .xlsx) files are supported."))]
        ELSE [dir |-> Unlink(tried.dir, tmp), rows |-> tried.rows, closed |-> TRUE,
              result |-> OuterExcept(tried.result)]

UploadInit ==
    /\ GatewayInit
    /\ NoConcurrentCalls
    /\ NoUploads
    /\ NoLogins

\* one upload, from the request to the end of the handler or, for an upload
\* on disk that entered the try block, to `await file.close()`: the directory
\* and the table are as the handler leaves them, the result is yet to come
upload_file(filename, excel, fault, spooled) ==
    /\ nUploads < MaxUploads
    /\ LET done == UploadFile(updir, rows, nUploads + 1, filename, excel, fault)
           record == [filename |-> filename, excel |-> excel, fault |-> fault,
                      fileId |-> nUploads + 1, closed |-> done.closed,
                      result |-> done.result]
       IN  /\ updir' = done.dir
           /\ rows' = done.rows
           /\ IF done.closed /\ spooled = "disk"
              THEN /\ closing' = closing \cup {[record EXCEPT !.closed = FALSE]}
                   /\ lastUpload' = lastUpload
              ELSE /\ closing' = closing
                   /\ lastUpload' = <<record>>
    /\ nUploads' = nUploads + 1
    /\ UNCHANGED <<gatewayVars, concurrentVars, userVars>>

\* the worker thread has closed the file: the handler resumes after
\* `await file.close()` and what it returned or raised is delivered
FileClosed(u) ==
    /\ u \in closing
    /\ closing' = closing \ {u}
    /\ lastUpload' = <<[u EXCEPT !.closed = TRUE]>>
    /\ UNCHANGED <<updir, rows, nUploads>>
    /\ UNCHANGED <<gatewayVars, concurrentVars, userVars>>

\* the task of an upload is cancelled while it is suspended at
\* `await file.close()`: CancelledError is no Exception and leaves the handler;
\* the worker thread may or may not have closed the file by then
UploadCancelled(u, closed) ==
    /\ u \in closing
    /\ closing' = closing \ {u}
    /\ lastUpload' = <<[u EXCEPT !.closed = closed,
                                 !.result = Uncaught("CancelledError")]>>
    /\ UNCHANGED <<updir, rows, nUploads>>
    /\ UNCHANGED <<gatewayVars, concurrentVars, userVars>>

\* the inputs of one upload; what the environment would do at a step is drawn
\* only when the handler reaches the step: nothing happens to a rejected file,
\* read_excel is not called for a .csv suffix or after a failed copy, and
\* nothing fails after read_excel has failed
UploadInputs ==
    {i \in [filename : Filenames, excel : ReadExcelOutcomes, fault : Faults,
            spooled : Spooled] :
        /\ ~HasSupportedExtension(Lower(i.filename))
              => (i.excel = "ok" /\ i.fault = "none" /\ i.spooled = "memory")
        /\ (Suffix(Lower(i.filename)) = ".csv" \/ i.fault = "copy") => i.excel = "ok"
        /\ i.excel # "ok" => i.fault = "none"}

UploadNext ==
    \/ \E i \in UploadInputs : upload_file(i.filename, i.excel, i.fault, i.spooled)
    \/ \E u \in closing : FileClosed(u)
    \/ \E u \in closing, closed \in BOOLEAN : UploadCancelled(u, closed)

UploadSpec == UploadInit /\ [][UploadNext]_vars

(***************************************************************************)
(* The dependency `get_current_user` (analyzer_service/app/api/            *)
(* dependencies.py) over the users table (backend_service/src/db)          *)
(*                                                                         *)
(* Several calls run against one table.  A call reads the user and, when   *)
(* there is none, goes on to create_user; calls served by different        *)
(* workers can interleave between the two.                                 *)
(***************************************************************************)
\* get_current_user calls in one run
NumLogins == 2

Logins == 1..NumLogins

\* claims of validated tokens: the upn and preferred_username entries, "" when
\* the entry is missing
TokenClaims == {[upn |-> "alice", preferred_username |-> ""],
                [upn |-> "", preferred_username |-> "alice"],
                [upn |-> "bob", preferred_username |-> "robert"],
                [upn |-> "carol", preferred_username |-> "carol"],
                [upn |-> "", preferred_username |-> ""]}

\* users tables the service may start with
InitialUsers == {{}, {[username |-> "alice", is_admin |-> TRUE]},
                     {[username |-> "alice", is_admin |-> FALSE]}}

NoUser == [username |-> "", is_admin |-> FALSE]

\* claims.get("upn") or claims.get("preferred_username")
UsernameOf(claims) == IF claims.upn # "" THEN claims.upn ELSE claims.preferred_username

\* db.query(User).filter(User.username == username).first(): the rows found
UsersByUsername(table, username) == {u \in table : u.username = username}

\* parameters of crud.create_user(db, username, password, is_admin=False)
CreateUserParameters == <<"db", "username", "password", "is_admin">>
CreateUserRequired == {"db", "username", "password"}

\* the call crud.create_user(db, user_data=user_data): one positional argument
\* and one keyword
CreateUserCallPositional == 1
CreateUserCallKeywords == {"user_data"}

\* Python binds the call to the signature: every keyword names a parameter and
\* every required parameter gets a value; otherwise TypeError
CreateUserCallBinds ==
    LET named == {CreateUserParameters[i] : i \in 1..Len(CreateUserParameters)}
        given == {CreateUserParameters[i] : i \in 1..CreateUserCallPositional}
                     \cup CreateUserCallKeywords
    IN  CreateUserCallKeywords \subseteq named /\ CreateUserRequired \subseteq given

\* create_user for a username: the row is inserted and committed unless the
\* unique username is taken; the table afterwards and what the call raises
CreateUser(table, username) ==
    IF ~CreateUserCallBinds
    THEN [users |-> table, user |-> NoUser, exc |-> "TypeError"]
    ELSE IF UsersByUsername(table, username) # {}
    THEN [users |-> table, user |-> NoUser, exc |-> "IntegrityError"]
    ELSE [users |-> table \cup {[username |-> username, is_admin |-> FALSE]},
          user |-> [username |-> username, is_admin |-> FALSE], exc |-> "none"]

\* a call that has not started
LoginInit == [pc |-> "start", username |-> "", user |-> NoUser, result |-> NoOutcome]

UserInit ==
    /\ GatewayInit
    /\ NoConcurrentCalls
    /\ NoUploads
    /\ users \in InitialUsers
    /\ logins = [p \in Logins |-> LoginInit]

\* the call up to the lookup: the username is taken from the claims and the
\* user is read; a user that exists is returned
LookupUser(p, claims) ==
    /\ logins[p].pc = "start"
    /\ LET username == UsernameOf(claims)
           found == UsersByUsername(users, username)
       IN  logins' = [logins EXCEPT ![p] =
               IF username = ""
               THEN [pc |-> "done", username |-> username, user |-> NoUser,
                     result |-> HTTPException(401,
                         "Token does not contain a valid username claim.")]
               ELSE IF found # {}
               THEN [pc |-> "done", username |-> username,
                     user |-> CHOOSE u \in found : TRUE,
                     result |-> Return(NoValue)]
               ELSE [pc |-> "provisioning", username |-> username, user |-> NoUser,
                     result |-> NoOutcome]]
    /\ UNCHANGED <<users, gatewayVars, concurrentVars, uploadVars>>

\* just-in-time provisioning: create_user is called for the user not found
ProvisionUser(p) ==
    /\ logins[p].pc = "provisioning"
    /\ LET made == CreateUser(users, logins[p].username)
       IN  /\ users' = made.users
           /\ logins' = [logins EXCEPT ![p] =
                  [pc |-> "done", username |-> logins[p].username, user |-> made.user,
                   result |-> IF made.exc = "none" THEN Return(NoValue)
                              ELSE Uncaught(made.exc)]]
    /\ UNCHANGED <<gatewayVars, concurrentVars, uploadVars>>

UserNext ==
    \/ \E p \in Logins, claims \in TokenClaims : LookupUser(p, claims)
    \/ \E p \in Logins : ProvisionUser(p)

UserSpec == UserInit /\ [][UserNext]_vars

(***************************************************************************)
(* Properties                                                              *)
(***************************************************************************)
\* the request ended in the buffered branch of the handler
BufferedDone == pc = "done" /\ calls # <<>> /\ calls[1].mode = "get"

\* the chunks pulled from downstream, each as a passthrough event
ReceivedAsData == [i \in 1..Len(received) |-> [type |-> "data", payload |-> received[i]]]

\* the wire bytes of the relay's unavailability event
UnavailableEvent ==
    [type |-> "error",
     payload |-> "data: {\"type\": \"error\", \"message\": \"Downstream service is unavailable.\"}\n\n"]

\* C1: a request whose agent name is not exactly one of dormant, compliance,
\* ia-chat, sql-bot is rejected with status 400 and no downstream call is
\* issued for it, whatever its streaming parameter.
C1_InvalidAgentRejected ==
    (pc # "idle" /\ req.agent \notin {"dormant", "compliance", "ia-chat", "sql-bot"})
        => /\ pc = "done"
           /\ outcome.kind = "http_exception"
           /\ CallerStatus(outcome) = 400
           /\ Len(calls) = 0
           /\ relayState = "NotStarted"

\* C1 witness: a case variant of an allowed name, sent in streaming mode, was rejected
C1_Witness ==
    /\ pc = "done"
    /\ req.agent = "Dormant"
    /\ req.streaming = "True"
    /\ outcome.status = 400
    /\ calls = <<>>

\* C2: in every state of a stream, an error event can only be the last event
\* emitted so far; hence at most one error event, and nothing after it.
C2_ErrorEventIsLast ==
    \A i \in 1..Len(emitted) : emitted[i].type = "error" => i = Len(emitted)

\* C2 witness: the relay has yielded the unavailability frame after the chunks
\* it relayed, was resumed by its consumer and has ended
C2_Witness ==
    /\ relayState = "Closed"
    /\ closeReason = "transport"
    /\ pc = "done"
    /\ Len(emitted) = MaxChunks + 1
    /\ emitted[Len(emitted)].type = "error"
    /\ emitted[1].type = "data"

\* C3: a stream whose downstream status is >= 400 with body B ends having
\* emitted exactly the error frame "Downstream error: " + B and no data event.
C3_ErrorStatusEmitsOneErrorFrame ==
    (relayState = "Closed" /\ dsStatus >= 400)
        => /\ emitted = <<ErrorEvent(DownstreamErrorMessage(dsBody))>>
           /\ raised = "none"

\* C4: a stream that met a transport failure has emitted the chunks received
\* before it and then exactly the unavailability error event; the relay is
\* suspended at the yield of that event or closed, its next step closes it and
\* emits nothing, and it is closed when the caller's response has ended and the
\* caller did not leave; the caller's response stays the 200 event stream and
\* nothing is raised.
C4_TransportFailureEndsInBand ==
    /\ [](  (outcome.kind = "stream" /\ dsFailure # "none")
               => /\ emitted = ReceivedAsData \o <<UnavailableEvent>>
                  /\ relayState \in {"ErroringOnce", "Closed"}
                  /\ conn = "released"
                  /\ (pc = "done" /\ closeReason # "cancelled") => relayState = "Closed"
                  /\ raised = "none"
                  /\ CallerStatus(outcome) = 200)
    /\ [][(outcome.kind = "stream" /\ dsFailure # "none")
               => /\ emitted' = emitted
                  /\ relayState' \in {relayState, "Closed"}]_vars

\* C4 witness: a read timeout after two relayed chunks; the frame was sent and
\* the relay has closed
C4_Witness ==
    /\ outcome.kind = "stream"
    /\ dsFailure = "ReadTimeout"
    /\ Len(received) = 2
    /\ Len(emitted) = 3
    /\ closeReason = "transport"
    /\ relayState = "Closed"

\* C5: a stream whose downstream status is below 400 and whose body ended
\* without failure has emitted exactly the received chunks, byte for byte and
\* in order, with no error event.
C5_ChunksRelayedVerbatim ==
    (relayState = "Closed" /\ dsStatus # 0 /\ dsStatus < 400
        /\ dsFailure = "none" /\ closeReason # "cancelled")
        => /\ closeReason = "eof"
           /\ emitted = ReceivedAsData
           /\ raised = "none"

\* C5 witness: three chunks were delivered and the body ended
C5_Witness ==
    /\ closeReason = "eof"
    /\ dsStatus = 200
    /\ received = <<"a", "b", "data: x\n\n">>
    /\ Len(emitted) = 3

\* C6: the relay never raises an exception to its consumer.
C6_RelayNeverRaises == raised = "none"

\* C7: a buffered call to an allowed agent whose downstream request failed at
\* transport level ends with status 503 and the fixed unavailability detail.
C7_BufferedTransportFailureIs503 ==
    (BufferedDone /\ dsFailure # "none")
        => /\ outcome.kind = "http_exception"
           /\ CallerStatus(outcome) = 503
           /\ outcome.detail = "The downstream AI agent service is currently unavailable."

\* C7 witness: a buffered call to an allowed agent met a connect timeout
C7_Witness ==
    /\ BufferedDone
    /\ req.agent = "sql-bot"
    /\ dsFailure = "ConnectTimeout"
    /\ outcome.status = 503

\* C8: a buffered call ends with a downstream HTTP error exactly when the
\* downstream status is >= 400, and then mirrors the status and carries the body.
C8_HttpErrorIffStatusAtLeast400 ==
    (BufferedDone /\ dsStatus # 0)
        => /\ dsStatus >= 400 =>
                /\ outcome.kind = "http_exception"
                /\ CallerStatus(outcome) = dsStatus
                /\ outcome.detail = "Downstream service error: " \o dsBody
           /\ dsStatus < 400 => outcome.kind # "http_exception"

\* C9: a buffered call that succeeded answers with status 200 and the decoded
\* downstream body, unchanged.
C9_SuccessBodyIsDecodedBody ==
    (BufferedDone /\ outcome.kind = "return")
        => /\ CallerStatus(outcome) = 200
           /\ ResponseJson(dsBody).ok
           /\ outcome.body = ResponseJson(dsBody).value

\* C9 witness: a 201 response with a JSON array body was returned
C9_Witness ==
    /\ BufferedDone
    /\ outcome.kind = "return"
    /\ dsStatus = 201
    /\ dsBody = "[1, 2]"
    /\ outcome.body.type = "array"

\* C10: a buffered call whose downstream response has a success status and a
\* body that is not JSON ends as a 500 with the generic text; it is neither a
\* success nor an error that carries the body.
C10_MalformedJsonIs500 ==
    (BufferedDone /\ dsStatus >= 200 /\ dsStatus <= 299 /\ dsBody \in {"", "boom", "say \"hi\""})
        => /\ outcome.kind = "uncaught"
           /\ outcome.exc = "JSONDecodeError"
           /\ CallerStatus(outcome) = 500
           /\ CallerDetail(outcome) = "Internal Server Error"

\* C10 witness: a 200 response with the body boom ended the request
C10_Witness ==
    /\ BufferedDone
    /\ dsStatus = 200
    /\ dsBody = "boom"
    /\ outcome.exc = "JSONDecodeError"

\* the agent of the request is one of the four allowed names
AllowedRequest == pc # "idle" /\ req.agent \in {"dormant", "compliance", "ia-chat", "sql-bot"}

\* C11 (as stated): a request to an allowed agent gets a streaming outcome
\* exactly when params.streaming is the boolean true and a buffered one
\* otherwise, never both, and once it has ended it has issued exactly one
\* downstream call, in the chosen mode.
C11_StreamingIffBooleanTrue ==
    (AllowedRequest /\ pc = "done") =>
        /\ outcome.kind = "stream" <=> req.streaming = "True"
        /\ outcome.kind \in {"return", "http_exception", "uncaught"}
              => (relayState = "NotStarted" /\ emitted = <<>>)
        /\ Len(calls) = 1
        /\ calls[1].mode = (IF req.streaming = "True" THEN "stream" ELSE "get")

\* C11 (amended): a request to an allowed agent gets a streaming outcome exactly
\* when params.streaming is truthy (true, a non-zero number, a non-empty string)
\* and a buffered one when it is falsy or absent; it never has both a stream and
\* a buffered call, never more than one downstream call, and once it has ended
\* exactly one call, in the chosen mode, unless its caller left before the
\* stream began, when it has none.
C11_StreamingIffTruthy ==
    AllowedRequest =>
        /\ outcome.kind = "stream" <=> req.streaming \in {"True", "1", "'false'"}
        /\ pc = "streaming" <=> (outcome.kind = "stream" /\ relayState # "Closed"
                                     /\ closeReason # "cancelled")
        /\ pc = "buffered" => (outcome.kind = "none" /\ relayState = "NotStarted")
        /\ outcome.kind \in {"return", "http_exception", "uncaught"}
              => (relayState = "NotStarted" /\ emitted = <<>>)
        /\ Len(calls) <= 1
        /\ \A i \in 1..Len(calls) :
              calls[i].mode = (IF outcome.kind = "stream" THEN "stream" ELSE "get")
        /\ pc = "done"
              => Len(calls) = (IF closeReason = "cancelled" /\ relayState = "NotStarted"
                               THEN 0 ELSE 1)

\* C11 witness: the string 'false' selected the streaming mode, and the caller
\* left before the stream began: the request ended with no downstream call
C11_Witness ==
    /\ AllowedRequest
    /\ req.streaming = "'false'"
    /\ outcome.kind = "stream"
    /\ pc = "done"
    /\ closeReason = "cancelled"
    /\ relayState = "NotStarted"
    /\ calls = <<>>

\* C12: once the caller of a streaming call has disconnected, the downstream
\* connection of the call is not open: it was released, or never opened.
C12_DisconnectReleasesConnection ==
    closeReason = "cancelled" => conn # "open"

\* C13: whenever the relay enters Closed its downstream connection has been
\* released, and from Closed nothing changes: no event, no call, no other state.
C13_ClosedIsTerminal ==
    [][/\ relayState' = "Closed" => conn' = "released"
       /\ relayState = "Closed"
            => /\ relayState' = "Closed"
               /\ emitted' = emitted
               /\ calls' = calls
               /\ conn' = conn]_vars

\* C13 witness: the relay closed after a transport failure, its connection
\* released and the unavailability frame its last event
C13_Witness ==
    /\ relayState = "Closed"
    /\ closeReason = "transport"
    /\ dsFailure = "ConnectTimeout"
    /\ emitted = <<UnavailableEvent>>
    /\ conn = "released"

\* the events of a complete stream: the received chunks, then at most one error
CompleteEventStream ==
    \/ emitted = ReceivedAsData
    \/ /\ Len(emitted) = Len(received) + 1
       /\ SubSeq(emitted, 1, Len(received)) = ReceivedAsData
       /\ emitted[Len(emitted)].type = "error"

\* C15: a request to an allowed agent that has ended (and was not abandoned by
\* its caller) ended well formed: a buffered call in a response with a status,
\* a streaming call in Closed with a complete event stream and nothing raised.
C15_EndsWellFormed ==
    (AllowedRequest /\ pc = "done" /\ closeReason # "cancelled")
        => IF outcome.kind = "stream"
           THEN relayState = "Closed" /\ raised = "none" /\ CompleteEventStream
           ELSE outcome.kind \in {"return", "http_exception", "uncaught"}

\* steps in the longest run of one call: arrival, start of the relay, status,
\* the chunks, the read failure, the disconnect and the finalization
RunLength == MaxChunksConc + 6

\* a call that runs alone: which call it is, its record, and its client
Lone(i, c, k) == [i |-> i, call |-> c, conn |-> k]

\* the steps of a call that runs alone
LoneSteps(s) == {Lone(s.i, t.call, t.conn) : t \in CallSteps(s.call, s.conn, s.i)}

RECURSIVE Reach(_, _, _)
\* the lone calls reachable from `seen` within n steps, `frontier` being the
\* ones not expanded yet
Reach(frontier, seen, n) ==
    IF frontier = {} \/ n = 0 THEN seen
    ELSE LET new == UNION {LoneSteps(s) : s \in frontier} \ seen
         IN Reach(new, seen \cup new, n - 1)

\* every state of a call that runs alone, for each of the calls
RunAlone ==
    Reach({Lone(i, CallInit, "none") : i \in Calls},
          {Lone(i, CallInit, "none") : i \in Calls}, RunLength)

\* two lone calls agree on which call they are, on the request, on its
\* position and on all the downstream did
SameInputs(a, b) ==
    /\ a.i = b.i
    /\ a.call.pc = b.call.pc
    /\ a.call.req = b.call.req
    /\ a.call.relayState = b.call.relayState
    /\ a.call.dsStatus = b.call.dsStatus
    /\ a.call.dsBody = b.call.dsBody
    /\ a.call.received = b.call.received
    /\ a.call.dsFailure = b.call.dsFailure
    /\ a.call.closeReason = b.call.closeReason

\* a record of a call fits a process that iterates ALLOWED_AGENTS in the given
\* order: a rejection lists the agents in that order
InProcess(c, order) ==
    (c.outcome.kind = "http_exception" /\ c.outcome.status = 400)
        => c.outcome.detail = "Invalid agent specified. Allowed agents are: "
                                  \o JoinAgents(order)

\* two lone calls come from processes that iterate ALLOWED_AGENTS in the same
\* order, as far as their records tell
SameProcess(a, b) ==
    (a.call.outcome.status = 400 /\ b.call.outcome.status = 400)
        => a.call.outcome.detail = b.call.outcome.detail

\* the state of a lone call is a function of its request, of what downstream
\* did and of its process
LoneCallIsDetermined ==
    \A a, b \in RunAlone : (SameInputs(a, b) /\ SameProcess(a, b)) => a = b

\* call i as it is in the process: its record and the state of its client
InFlight(i) == Lone(i, cs[i], ConnOf(cs[i], clients))

\* C14: under every interleaving of the calls, each call is in a state it
\* reaches when it runs alone in the same process, and its outcome, events and
\* connection are those of the lone call that met the same request and the same
\* downstream behaviour; and a step of the system leaves the record and the
\* connection of every call but one as they were, and the agent registry too.
C14_CallsAreIndependent ==
    /\ [](\A i \in Calls : InFlight(i) \in RunAlone /\ InProcess(cs[i], agentOrder))
    /\ [](LoneCallIsDetermined)
    /\ [][/\ agentOrder' = agentOrder
          /\ \E i \in Calls : \A j \in Calls \ {i} :
                /\ cs'[j] = cs[j]
                /\ ConnOf(cs'[j], clients') = ConnOf(cs[j], clients)]_vars

\* C14 witness: a call to one agent ended on an error status, a transport
\* failure or a disconnect, and a call to another agent relayed all its chunks
\* to the end of the body and released its connection
C14_Witness ==
    \E i, j \in Calls :
        /\ i # j
        /\ cs[i].req.agent \in {"dormant", "compliance", "ia-chat", "sql-bot"}
        /\ cs[j].req.agent \in {"dormant", "compliance", "ia-chat", "sql-bot"} \ {cs[i].req.agent}
        /\ cs[i].closeReason \in {"status", "cancelled", "transport"}
        /\ cs[j].closeReason = "eof"
        /\ Len(cs[j].emitted) = MaxChunksConc
        /\ ConnOf(cs[j], clients) = "released"

\* the upload that ended last
Last == lastUpload[1]

\* the last upload ran to the end of its handler
NotCancelled == lastUpload # <<>> /\ Last.result.exc # "CancelledError"

\* the last upload carried a supported name and pandas could not parse it
ParseFailed ==
    /\ lastUpload # <<>>
    /\ Last.filename \in {"book.xlsx", "old.xls", ".csv"}
    /\ Last.fault \notin {"copy"}
    /\ Last.excel \in {"ValueError", "ParserError"}

\* C16: an upload fails with 400 when its name does not end in .csv, .xls or
\* .xlsx, with 422 when the name is supported and the file cannot be parsed,
\* and with 500 only when the file system or the database failed.
C16_UploadStatuses ==
    NotCancelled =>
        /\ Last.filename \in {"notes.txt", "", "archive.csv.gz"}
              => CallerStatus(Last.result) = 400
        /\ ParseFailed => CallerStatus(Last.result) = 422
        /\ CallerStatus(Last.result) = 500
              => (Last.fault # "none" \/ Last.excel = "BadZipFile")

\* C17: after every upload the directory holds no tmp_ file, and an upload that
\* passed the extension check has closed the uploaded file.
C17_NoTemporaryFileRemains ==
    /\ \A f \in updir : f.prefix # "tmp_"
    /\ (NotCancelled
          /\ Last.filename \in {"data.csv", "DATA.CSV", "book.xlsx", "old.xls", ".csv"})
            => Last.closed

\* C17 witness: uploads ended by a parse failure, and by a database failure
\* after a workbook was converted, left no temporary file
C17_Witness ==
    /\ nUploads = 2
    /\ Last.filename = "book.xlsx"
    /\ Last.excel = "ok"
    /\ Last.fault = "db"
    /\ CallerStatus(Last.result) = 500
    /\ Last.closed
    /\ \A f \in updir : f.prefix # "tmp_"

\* the last upload got as far as db.commit and the commit failed
CommitFailed ==
    /\ NotCancelled
    /\ Last.fault = "db"
    /\ \/ Last.filename \in {"data.csv", "DATA.CSV"}
       \/ (Last.filename \in {"book.xlsx", "old.xls", ".csv"} /\ Last.excel = "ok")

\* C18: an upload whose commit failed with a database error ended in 500, and
\* the persisted CSV files and the File rows correspond one to one.
C18_FilesMatchRows ==
    /\ CommitFailed => CallerStatus(Last.result) = 500
    /\ {f.id : f \in {g \in updir : g.prefix = ""}} = {r.id : r \in rows}

\* C19: every finished get_current_user call that carried a username returned
\* the user of that name, exactly one row exists for the name, a provisioned
\* user is no admin, and no call changes is_admin of a row.
C19_LoginReturnsTheOneUser ==
    /\ \A p \in Logins :
          (logins[p].pc = "done" /\ logins[p].username # "")
              => /\ logins[p].result.kind = "return"
                 /\ logins[p].user.username = logins[p].username
                 /\ Cardinality(UsersByUsername(users, logins[p].username)) = 1
    /\ \A u \in users : u.username # "alice" => u.is_admin = FALSE

====
